---------------------------- MODULE Spec2Model ----------------------------
(***************************************************************************)
(* A model of the bfhl HTTP service of src/index.js: the middleware chain  *)
(* (cors, express.json, the per-IP fixed-window rate limiter), the routes  *)
(* GET /health and POST /bfhl with its five request keys, the numeric      *)
(* kernels, the AI proxy with its suspended calls, and the sanitizer.      *)
(*                                                                         *)
(* JavaScript numbers are IEEE-754 doubles.  The kernels only ever handle  *)
(* integer-valued doubles, which are modelled exactly: a magnitude is a    *)
(* natural number of any size, and every arithmetic result is rounded to a *)
(* 53-bit significand, ties to even, as the hardware does.                 *)
(***************************************************************************)
EXTENDS Integers, Sequences, FiniteSets, TLC

-----------------------------------------------------------------------------
(* Natural numbers of any size (exact arithmetic): little-endian sequences   *)
(* of limbs in base 2^15, the top limb not 0; <<>> is 0.                     *)

Base == 2 ^ 15

RECURSIVE BOfNat(_)
BOfNat(n) == IF n = 0 THEN <<>> ELSE <<n % Base>> \o BOfNat(n \div Base)

RECURSIVE ToNat(_)
ToNat(b) == IF b = <<>> THEN 0 ELSE Head(b) + Base * ToNat(Tail(b))

\* Limb i of b, 0 above its length.
Limb(b, i) == IF i <= Len(b) THEN b[i] ELSE 0

\* b without its leading zeros.
RECURSIVE BNorm(_)
BNorm(b) ==
  IF b = <<>> THEN <<>>
  ELSE IF b[Len(b)] = 0 THEN BNorm(SubSeq(b, 1, Len(b) - 1)) ELSE b

RECURSIVE BAddAt(_, _, _, _)
BAddAt(a, b, i, c) ==
  IF i > Len(a) /\ i > Len(b) THEN (IF c = 0 THEN <<>> ELSE <<c>>)
  ELSE LET s == Limb(a, i) + Limb(b, i) + c
       IN  <<s % Base>> \o BAddAt(a, b, i + 1, s \div Base)

BAdd(a, b) == BAddAt(a, b, 1, 0)

\* a - b for a >= b.
RECURSIVE BSubAt(_, _, _, _)
BSubAt(a, b, i, c) ==
  IF i > Len(a) THEN <<>>
  ELSE LET d == Limb(a, i) - Limb(b, i) - c
       IN  <<d % Base>> \o BSubAt(a, b, i + 1, IF d < 0 THEN 1 ELSE 0)

BSub(a, b) == BNorm(BSubAt(a, b, 1, 0))

\* a < b, a = b, a > b as -1, 0, 1; both without leading zeros.
RECURSIVE BCmpAt(_, _, _)
BCmpAt(a, b, i) ==
  IF i = 0 THEN 0
  ELSE IF a[i] < b[i] THEN -1
  ELSE IF a[i] > b[i] THEN 1
  ELSE BCmpAt(a, b, i - 1)

BCmp(a, b) ==
  IF Len(a) < Len(b) THEN -1
  ELSE IF Len(a) > Len(b) THEN 1
  ELSE BCmpAt(a, b, Len(a))

BLeq(a, b) == BCmp(a, b) <= 0

\* a * d for one limb d.
RECURSIVE BMulLimbAt(_, _, _, _)
BMulLimbAt(a, d, i, c) ==
  IF i > Len(a) THEN (IF c = 0 THEN <<>> ELSE <<c>>)
  ELSE LET s == a[i] * d + c
       IN  <<s % Base>> \o BMulLimbAt(a, d, i + 1, s \div Base)

BMulLimb(a, d) == BNorm(BMulLimbAt(a, d, 1, 0))

Zeros(k) == [i \in 1..k |-> 0]

\* a * Base^w
ShiftLimbs(a, w) == IF a = <<>> THEN <<>> ELSE Zeros(w) \o a

RECURSIVE BMulAt(_, _, _)
BMulAt(a, b, i) ==
  IF i > Len(a) THEN <<>>
  ELSE BAdd(ShiftLimbs(BMulLimb(b, a[i]), i - 1), BMulAt(a, b, i + 1))

BMul(a, b) == BMulAt(a, b, 1)

\* The largest limb d with b * d <= r, for r < b * Base: lo always fits and
\* hi never does.
RECURSIVE QDigit(_, _, _, _)
QDigit(r, b, lo, hi) ==
  IF hi - lo = 1 THEN lo
  ELSE LET mid == (lo + hi) \div 2
       IN  IF BLeq(BMulLimb(b, mid), r)
           THEN QDigit(r, b, mid, hi) ELSE QDigit(r, b, lo, mid)

\* Long division, from the top limb of a down: [q, r] with a = q * b + r and
\* r < b, for b # 0.
RECURSIVE BDivAt(_, _, _, _, _)
BDivAt(a, b, i, q, r) ==
  IF i = 0 THEN [q |-> BNorm(q), r |-> r]
  ELSE LET r2 == BNorm(<<a[i]>> \o r)
           d  == QDigit(r2, b, 0, Base)
       IN  BDivAt(a, b, i - 1, <<d>> \o q, BSub(r2, BMulLimb(b, d)))

BDivMod(a, b) == BDivAt(a, b, Len(a), <<>>, <<>>)

\* The number of bits of a.
BitLen(a) ==
  IF a = <<>> THEN 0
  ELSE LET top == a[Len(a)]
       IN  15 * (Len(a) - 1)
             + (CHOOSE k \in 1..15 : 2 ^ (k - 1) <= top /\ top < 2 ^ k)

\* a * 2^k
Shl(a, k) == ShiftLimbs(BMulLimb(a, 2 ^ (k % 15)), k \div 15)

\* a \div 2^k
Shr(a, k) ==
  LET w == k \div 15
      s == k % 15
      x == SubSeq(a, w + 1, Len(a))
  IN  BNorm([i \in 1..Len(x) |->
               (x[i] \div 2 ^ s) + (Limb(x, i + 1) % 2 ^ s) * 2 ^ (15 - s)])

\* The significand of a double: 52 stored bits and the implicit leading one.
MantBits == 52 + 1

\* Round to nearest, ties to even, at MantBits significant bits.
Round53(a) ==
  IF BitLen(a) <= MantBits THEN a
  ELSE LET k    == BitLen(a) - MantBits
           q    == Shr(a, k)
           rem  == BSub(a, Shl(q, k))
           half == Shl(<<1>>, k - 1)
           up   == \/ BCmp(rem, half) > 0
                   \/ BCmp(rem, half) = 0 /\ q[1] % 2 = 1
       IN  Shl(IF up THEN BAdd(q, <<1>>) ELSE q, k)

-----------------------------------------------------------------------------
(* JavaScript numbers that hold integers: a sign and a magnitude.            *)

Abs(i) == IF i < 0 THEN -i ELSE i

Num(i) == [neg |-> i < 0, mag |-> BOfNat(Abs(i))]

Zero == [neg |-> FALSE, mag |-> <<>>]

IsZero(x) == x.mag = <<>>

\* x <= y on signed numbers.
NumLeq(x, y) ==
  IF x.neg /\ ~IsZero(x)
  THEN (IF y.neg /\ ~IsZero(y) THEN BLeq(y.mag, x.mag) ELSE TRUE)
  ELSE (IF y.neg /\ ~IsZero(y) THEN FALSE ELSE BLeq(x.mag, y.mag))

\* Math.abs
jsAbs(x) == [neg |-> FALSE, mag |-> x.mag]

\* x + y for x, y >= 0, rounded as a double.
jsAdd(x, y) == [neg |-> FALSE, mag |-> Round53(BAdd(x.mag, y.mag))]

\* x % y for x >= 0, y > 0: exact in double arithmetic.
jsMod(x, y) == [neg |-> FALSE, mag |-> BDivMod(x.mag, y.mag).r]

\* x * y, rounded as a double.
jsMul(x, y) ==
  [neg |-> x.neg # y.neg, mag |-> Round53(BMul(x.mag, y.mag))]

\* x / y where y divides x (the only division the kernels perform: by a
\* gcd of x, whose quotient is again a double).
jsDiv(x, y) ==
  [neg |-> x.neg # y.neg, mag |-> Round53(BDivMod(x.mag, y.mag).q)]

\* Math.floor(Math.sqrt(x)) for x >= 0: the integer square root (the two
\* agree for every x below 2^52).
RECURSIVE BSqrtAt(_, _, _)
BSqrtAt(x, r, i) ==
  IF i = 0 THEN r
  ELSE LET c == BAdd(r, Shl(<<1>>, i - 1))
       IN  BSqrtAt(x, IF BLeq(BMul(c, c), x) THEN c ELSE r, i - 1)

jsFloorSqrt(x) ==
  [neg |-> FALSE, mag |-> BSqrtAt(x.mag, <<>>, (BitLen(x.mag) + 1) \div 2)]

-----------------------------------------------------------------------------
(* The numeric kernels.                                                      *)

RECURSIVE fibLoop(_, _)
fibLoop(res, n) ==
  IF Len(res) < n
  THEN LET l == Len(res)
       IN  fibLoop(Append(res, jsAdd(res[l], res[l - 1])), n)
  ELSE res

\* fibSeries(n) for an integer n (a number of terms small enough to count).
fibSeries(n) ==
  IF NumLeq(n, Zero) THEN <<>>
  ELSE IF n = Num(1) THEN <<Zero>>
  ELSE fibLoop(<<Zero, Num(1)>>, ToNat(n.mag))

\* The trial division stopping one short of the square root.
RECURSIVE primeLoopBelow(_, _, _)
primeLoopBelow(x, i, r) ==
  IF ~NumLeq(r, i)
  THEN (IF IsZero(jsMod(x, i)) THEN FALSE
        ELSE primeLoopBelow(x, jsAdd(i, Num(2)), r))
  ELSE TRUE

RECURSIVE primeLoop(_, _, _)
primeLoop(x, i, r) ==
  IF NumLeq(i, r)
  THEN (IF IsZero(jsMod(x, i)) THEN FALSE
        ELSE primeLoop(x, jsAdd(i, Num(2)), r))
  ELSE TRUE

isPrimeNum(x) ==
  IF NumLeq(x, Num(1)) THEN FALSE
  ELSE IF NumLeq(x, Num(3)) THEN TRUE
  ELSE IF IsZero(jsMod(x, Num(2))) THEN FALSE
  ELSE primeLoop(x, Num(3), jsFloorSqrt(x))

RECURSIVE gcdAbs(_, _)
gcdAbs(a, b) == IF IsZero(b) THEN a ELSE gcdAbs(b, jsMod(a, b))

gcd(a, b) == gcdAbs(jsAbs(a), jsAbs(b))

\* arr.reduce(f) without an initial value: the first element starts the fold,
\* and a one-element array is returned as it is, f never called.
RECURSIVE gcdReduce(_, _, _)
gcdReduce(acc, arr, i) ==
  IF i > Len(arr) THEN acc ELSE gcdReduce(gcd(acc, arr[i]), arr, i + 1)

gcdArray(arr) == gcdReduce(arr[1], arr, 2)

lcm2(a, b) ==
  IF IsZero(a) \/ IsZero(b) THEN Zero
  ELSE jsAbs(jsMul(jsDiv(a, gcd(a, b)), b))

RECURSIVE lcmReduce(_, _, _)
lcmReduce(acc, arr, i) ==
  IF i > Len(arr) THEN acc ELSE lcmReduce(lcm2(acc, arr[i]), arr, i + 1)

lcmArray(arr) == lcmReduce(arr[1], arr, 2)

-----------------------------------------------------------------------------
(* Text: a string is a sequence of one-character strings.                    *)

LF == "\n"
CR == "\r"
BS == "\\"
\* The backtick, which a TLA+ string cannot hold.
BT == "BACKTICK"

IsSpace(c) == c \in {" ", LF, CR, "\t"}

\* Whether pattern p occurs in s at position i.
At(s, p, i) ==
  /\ i >= 1
  /\ i + Len(p) - 1 <= Len(s)
  /\ \A k \in 1..Len(p) : s[i + k - 1] = p[k]

\* The first position >= i where p occurs in s, or 0.
RECURSIVE Find(_, _, _)
Find(s, p, i) ==
  IF i + Len(p) - 1 > Len(s) THEN 0
  ELSE IF At(s, p, i) THEN i ELSE Find(s, p, i + 1)

\* String.prototype.trim
RECURSIVE trimStart(_)
trimStart(s) ==
  IF s # <<>> /\ IsSpace(Head(s)) THEN trimStart(Tail(s)) ELSE s

RECURSIVE trimEnd(_)
trimEnd(s) ==
  IF s # <<>> /\ IsSpace(s[Len(s)])
  THEN trimEnd(SubSeq(s, 1, Len(s) - 1)) ELSE s

trim(s) == trimEnd(trimStart(s))

\* s.replace(/p/g, r) for a literal pattern p.
RECURSIVE ReplaceAll(_, _, _, _)
ReplaceAll(s, p, r, i) ==
  IF i > Len(s) THEN <<>>
  ELSE IF At(s, p, i) THEN r \o ReplaceAll(s, p, r, i + Len(p))
  ELSE <<s[i]>> \o ReplaceAll(s, p, r, i + 1)

\* s.replace(/d([\s\S]*?)d/g, keep ? '$1' : ''): from the leftmost d, the
\* lazy body ends at the first d that follows; the scan resumes after it.
RECURSIVE ReplaceLazy(_, _, _, _)
ReplaceLazy(s, d, keep, i) ==
  IF i > Len(s) THEN <<>>
  ELSE LET j == IF At(s, d, i) THEN Find(s, d, i + Len(d)) ELSE 0
       IN  IF j # 0
           THEN (IF keep THEN SubSeq(s, i + Len(d), j - 1) ELSE <<>>)
                \o ReplaceLazy(s, d, keep, j + Len(d))
           ELSE <<s[i]>> \o ReplaceLazy(s, d, keep, i + 1)

\* s.replace(/BT([^BT]+)BT/g, '$1'): the body is one or more characters
\* other than a backtick.
RECURSIVE ReplaceInlineCode(_, _)
ReplaceInlineCode(s, i) ==
  IF i > Len(s) THEN <<>>
  ELSE LET j == IF s[i] = BT THEN Find(s, <<BT>>, i + 1) ELSE 0
       IN  IF j >= i + 2
           THEN SubSeq(s, i + 1, j - 1) \o ReplaceInlineCode(s, j + 1)
           ELSE <<s[i]>> \o ReplaceInlineCode(s, i + 1)

\* s.replace(/\\+/g, '')
RemoveBackslashes(s) == SelectSeq(s, LAMBDA c : c # BS)

\* s.replace(/\n{3,}/g, '\n\n'): run is the number of line feeds just passed.
RECURSIVE CollapseBlank(_, _, _)
CollapseBlank(s, i, run) ==
  IF i > Len(s) THEN <<>>
  ELSE IF s[i] = LF
       THEN (IF run >= 2 THEN <<>> ELSE <<LF>>) \o CollapseBlank(s, i + 1, run + 1)
       ELSE <<s[i]>> \o CollapseBlank(s, i + 1, 0)

\* The last position where p occurs in s, or 0.
RECURSIVE FindLast(_, _, _)
FindLast(s, p, i) ==
  IF i < 1 THEN 0 ELSE IF At(s, p, i) THEN i ELSE FindLast(s, p, i - 1)

\* s.match(/\{[\s\S]*\}/): from the first opening brace to the last closing
\* brace after it; <<>> stands for no match (a match has two characters).
jsonMatch(s) ==
  LET i == Find(s, <<"{">>, 1)
      j == FindLast(s, <<"}">>, Len(s))
  IN  IF i # 0 /\ j > i THEN SubSeq(s, i, j) ELSE <<>>

\* The JSON step of cleanAIContent on a matched span m.  The texts of this
\* model hold no double quote, digit or bracket, so JSON.parse(m) succeeds
\* only for an empty object, braces around optional white space, which is
\* re-serialised as {}; any other span makes JSON.parse throw and is kept.
jsonStep(s) ==
  LET m == jsonMatch(s)
  IN  IF m = <<>> THEN s
      ELSE IF \A k \in 2..(Len(m) - 1) : IsSpace(m[k]) THEN <<"{", "}">>
      ELSE m

Letters ==
  { "a", "b", "c", "d", "e", "f", "g", "h", "i", "j", "k", "l", "m",
    "n", "o", "p", "q", "r", "s", "t", "u", "v", "w", "x", "y", "z",
    "A", "B", "C", "D", "E", "F", "G", "H", "I", "J", "K", "L", "M",
    "N", "O", "P", "Q", "R", "S", "T", "U", "V", "W", "X", "Y", "Z" }

Digits == { "0", "1", "2", "3", "4", "5", "6", "7", "8", "9" }

\* \w, [A-Z0-9._%+-] and [A-Z0-9.-] under the i flag
WordChars   == Letters \cup Digits \cup {"_"}
LocalChars  == Letters \cup Digits \cup {".", "_", "%", "+", "-"}
DomainChars == Letters \cup Digits \cup {".", "-"}

\* \b before position i: just one of s[i - 1] and s[i] is a word character.
Boundary(s, i) ==
  (i - 1 >= 1 /\ s[i - 1] \in WordChars) # (i <= Len(s) /\ s[i] \in WordChars)

\* The last position of the longest run of characters of C that starts at
\* i: i - 1 when s[i] is not in C.
RECURSIVE RunEnd(_, _, _)
RunEnd(s, i, C) ==
  IF i <= Len(s) /\ s[i] \in C THEN RunEnd(s, i + 1, C) ELSE i - 1

\* Where the match of the e-mail pattern that starts at i ends, 0 without a
\* match: the local part is the run up to the @; the greedy domain gives up
\* characters down to its last dot that two or more letters follow, and the
\* letters run to a word boundary.
EmailEnd(s, i) ==
  LET at == RunEnd(s, i, LocalChars) + 1
      m  == RunEnd(s, at + 1, DomainChars)
      dots == { d \in (at + 2)..m :
                  /\ s[d] = "."
                  /\ RunEnd(s, d + 1, Letters) - d >= 2
                  /\ Boundary(s, RunEnd(s, d + 1, Letters) + 1) }
  IN  IF ~Boundary(s, i) \/ at = i \/ at > Len(s) THEN 0
      ELSE IF s[at] # "@" \/ dots = {} THEN 0
      ELSE RunEnd(s, (CHOOSE d \in dots : \A e \in dots : e <= d) + 1, Letters)

\* s.replace(/\b[A-Z0-9._%+-]+@[A-Z0-9.-]+\.[A-Z]{2,}\b/gi, '')
RECURSIVE RedactFrom(_, _)
RedactFrom(s, i) ==
  IF i > Len(s) THEN <<>>
  ELSE IF EmailEnd(s, i) # 0 THEN RedactFrom(s, EmailEnd(s, i) + 1)
  ELSE <<s[i]>> \o RedactFrom(s, i + 1)

redactEmails(s) == RedactFrom(s, 1)

cleanAIContent(raw) ==
  IF raw = <<>> THEN <<>>
  ELSE LET s1  == ReplaceLazy(raw, <<BT, BT, BT>>, FALSE, 1)
           s2  == jsonStep(s1)
           s3  == redactEmails(s2)
           s4  == ReplaceLazy(s3, <<"*", "*">>, TRUE, 1)
           s5  == ReplaceLazy(s4, <<"_", "_">>, TRUE, 1)
           s6  == ReplaceLazy(s5, <<"*">>, TRUE, 1)
           s7  == ReplaceInlineCode(s6, 1)
           s8  == ReplaceAll(s7, <<"&", "q", "u", "o", "t", ";">>, <<"\"">>, 1)
           s9  == ReplaceAll(s8, <<BS, "n">>, <<LF>>, 1)
           s10 == RemoveBackslashes(s9)
           s11 == ReplaceAll(s10, <<CR, LF>>, <<LF>>, 1)
       IN  trim(CollapseBlank(s11, 1, 0))

-----------------------------------------------------------------------------
(* JSON values, request bodies, requests and responses.                      *)

\* A JSON value: a number (int says whether Number.isInteger holds of it, n
\* is its value when it does), a string s, an array a, or null.
JNum(i)  == [t |-> "num", int |-> TRUE, n |-> Num(i), s |-> <<>>, a |-> <<>>]
JFrac    == [t |-> "num", int |-> FALSE, n |-> Zero, s |-> <<>>, a |-> <<>>]
JStr(s)  == [t |-> "str", int |-> FALSE, n |-> Zero, s |-> s, a |-> <<>>]
JNull    == [t |-> "null", int |-> FALSE, n |-> Zero, s |-> <<>>, a |-> <<>>]
JArr(a)  == [t |-> "arr", int |-> FALSE, n |-> Zero, s |-> <<>>, a |-> a]

\* req.body after express.json: undefined, or an object or array with its
\* own keys in order (Object.keys) and their values.
Undefined      == [kind |-> "undefined", keys |-> <<>>, vals |-> <<>>]
Obj(keys, vals) == [kind |-> "object", keys |-> keys, vals |-> vals]
Obj1(key, val)  == Obj(<<key>>, <<val>>)
TopArray1(val)  == [kind |-> "array", keys |-> <<"0">>, vals |-> <<val>>]

\* The data field of an envelope.
NoData       == [k |-> "none", list |-> <<>>, num |-> Zero, text |-> <<>>]
ListData(l)  == [k |-> "list", list |-> l, num |-> Zero, text |-> <<>>]
NumData(x)   == [k |-> "num", list |-> <<>>, num |-> x, text |-> <<>>]
TextData(x)  == [k |-> "text", list |-> <<>>, num |-> Zero, text |-> x]

VARIABLES
  OFFICIAL_EMAIL,  \* process.env.OFFICIAL_EMAIL, "" when it is not set
  genAI,           \* whether GEMINI_API_KEY is set, so that genAI is not null
  rateMap,         \* ip -> [count, start]
  now,             \* Date.now()
  pending,         \* id -> the /bfhl AI handlers suspended on their await
  last,            \* what the latest handler turn did: request and responses
  burst            \* history: the run of requests of one client being followed

vars == <<OFFICIAL_EMAIL, genAI, rateMap, now, pending, last, burst>>

RATE_LIMIT == 120
RATE_WINDOW_MS == 60000

\* res.status(status).json({is_success: false, official_email, error})
sendError(status, message) ==
  [status |-> status, body |-> "json", is_success |-> FALSE,
   official_email |-> IF OFFICIAL_EMAIL # "" THEN OFFICIAL_EMAIL ELSE "null",
   hasData |-> FALSE, data |-> NoData, hasError |-> TRUE, error |-> message]

\* res.json({is_success: true, official_email, data})
sendData(data) ==
  [status |-> 200, body |-> "json", is_success |-> TRUE,
   official_email |-> OFFICIAL_EMAIL,
   hasData |-> TRUE, data |-> data, hasError |-> FALSE, error |-> ""]

\* A response that express or a middleware writes by itself: no envelope.
Plain(status, body) ==
  [status |-> status, body |-> body, is_success |-> FALSE,
   official_email |-> "null",
   hasData |-> FALSE, data |-> NoData, hasError |-> FALSE, error |-> ""]

\* What a handler did in its turn: the responses it wrote, the kernel or
\* external call it made, and whether it is now suspended on the AI call.
Done(resp, called) ==
  [sends |-> <<resp>>, called |-> called, suspend |-> FALSE, prompt |-> <<>>]
Awaiting(prompt) ==
  [sends |-> <<>>, called |-> "generateContent", suspend |-> TRUE,
   prompt |-> prompt]

\* typeof n === 'number' in place of Number.isInteger(n)
isNumber(v) == v.t = "num"

isInteger(v) == v.t = "num" /\ v.int

Numbers(arr) == [i \in 1..Len(arr) |-> arr[i].n]

-----------------------------------------------------------------------------
(* POST /bfhl, one branch per key.                                           *)

FibonacciBranch(n) ==
  IF ~isInteger(n) \/ NumLeq(n.n, Zero) \/ ~NumLeq(n.n, Num(1000))
  THEN Done(sendError(400, "fibonacci must be an integer in range 1..1000"),
            "none")
  ELSE Done(sendData(ListData(fibSeries(n.n))), "fibSeries")

\* A non-integer element makes arr.map throw; the outer catch answers 400
\* with the error's message.
PrimeBranch(arr) ==
  IF arr.t # "arr" \/ Len(arr.a) = 0
  THEN Done(sendError(400, "prime must be a non-empty array"), "none")
  ELSE IF \E i \in 1..Len(arr.a) : ~isInteger(arr.a[i])
  THEN Done(sendError(400, "prime array must contain integers"), "none")
  ELSE Done(sendData(ListData(SelectSeq(Numbers(arr.a), isPrimeNum))),
            "isPrimeNum")

HcfBranch(arr) ==
  IF arr.t # "arr" \/ Len(arr.a) = 0
  THEN Done(sendError(400, "hcf must be a non-empty array"), "none")
  ELSE IF \E i \in 1..Len(arr.a) : ~isInteger(arr.a[i])
  THEN Done(sendError(400, "hcf array must contain integers"), "none")
  ELSE Done(sendData(NumData(gcdArray(Numbers(arr.a)))), "gcdArray")

LcmBranch(arr) ==
  IF arr.t # "arr" \/ Len(arr.a) = 0
  THEN Done(sendError(400, "lcm must be a non-empty array"), "none")
  ELSE IF \E i \in 1..Len(arr.a) : ~isInteger(arr.a[i])
  THEN Done(sendError(400, "lcm array must contain integers"), "none")
  ELSE Done(sendData(NumData(lcmArray(Numbers(arr.a)))), "lcmArray")

\* The template literal "Answer Question: " followed by the question.
Prompt(question) ==
  <<"A", "n", "s", "w", "e", "r", " ",
    "Q", "u", "e", "s", "t", "i", "o", "n", ":", " ">> \o question

\* The AI branch without its test of the credential.
AIBranchUnchecked(question) ==
  IF question.t # "str" \/ Len(trim(question.s)) = 0
  THEN Done(sendError(400, "AI must be a non-empty string"), "none")
  ELSE Awaiting(Prompt(question.s))

\* Up to the await of model.generateContent(prompt).
AIBranch(question) ==
  IF question.t # "str" \/ Len(trim(question.s)) = 0
  THEN Done(sendError(400, "AI must be a non-empty string"), "none")
  ELSE IF ~genAI
  THEN Done(sendError(503, "AI service not configured"), "none")
  ELSE Awaiting(Prompt(question.s))

allowedKeys == {"fibonacci", "prime", "lcm", "hcf", "AI"}

\* keys.length >= 1 in place of keys.length === 1
SomeKey(keys) == Len(keys) >= 1

\* keys.length === 1
OneKey(keys) == Len(keys) = 1

PostBfhl(req) ==
  LET body == req.body
      key  == body.keys[1]
      val  == body.vals[1]
  IN  IF OFFICIAL_EMAIL = ""
      THEN Done(sendError(500, "Server not configured: OFFICIAL_EMAIL missing"),
                "none")
      ELSE IF body.kind = "undefined"
      THEN Done(sendError(400, "Invalid JSON body"), "none")
      ELSE IF ~OneKey(body.keys)
      THEN Done(sendError(400, "Request must contain exactly one top-level key"),
                "none")
      ELSE IF key \notin allowedKeys
      THEN Done(sendError(400, "Unsupported key provided"), "none")
      ELSE IF key = "fibonacci" THEN FibonacciBranch(val)
      ELSE IF key = "prime" THEN PrimeBranch(val)
      ELSE IF key = "hcf" THEN HcfBranch(val)
      ELSE IF key = "lcm" THEN LcmBranch(val)
      ELSE AIBranch(val)

GetHealth ==
  IF OFFICIAL_EMAIL = ""
  THEN Done(sendError(500, "Server not configured: OFFICIAL_EMAIL missing"),
            "none")
  ELSE Done([status |-> 200, body |-> "json", is_success |-> TRUE,
             official_email |-> OFFICIAL_EMAIL, hasData |-> FALSE,
             data |-> NoData, hasError |-> FALSE, error |-> ""], "none")

NotFound == Done(sendError(404, "Not Found"), "none")

\* The routes, in the order they are mounted, then the generic 404.
Router(req) ==
  IF req.method = "GET" /\ req.path = "/health" THEN GetHealth
  ELSE IF req.method = "POST" /\ req.path = "/bfhl" THEN PostBfhl(req)
  ELSE NotFound

-----------------------------------------------------------------------------
(* The middleware chain, in the order of the app.use calls.                  *)

\* cors(): a preflight request is answered by the middleware itself, 204
\* with no body, and passed no further.
Cors(req) ==
  IF req.method = "OPTIONS"
  THEN [next |-> FALSE, sends |-> <<Plain(204, "empty")>>]
  ELSE [next |-> TRUE, sends |-> <<>>]

\* express.json({limit: '10kb'}): a body over the limit or one that does not
\* parse is passed on as an error, 413 or 400; no error handler is mounted,
\* so express skips the rest of the chain and writes its own error page.
JsonParser(req) ==
  IF req.payload = "toolarge"
  THEN [next |-> FALSE, sends |-> <<Plain(413, "html")>>]
  ELSE IF req.payload = "malformed"
  THEN [next |-> FALSE, sends |-> <<Plain(400, "html")>>]
  ELSE [next |-> TRUE, sends |-> <<>>]

\* req.ip || req.connection.remoteAddress || 'unknown'
ClientKey(req) ==
  IF req.ip # "" THEN req.ip
  ELSE IF req.remoteAddress # "" THEN req.remoteAddress
  ELSE "unknown"

\* rateMap.get(ip) || { count: 0, start: now }
Entry(ip) ==
  IF ip \in DOMAIN rateMap THEN rateMap[ip] ELSE [count |-> 0, start |-> now]

\* The window test with >= in place of >.
CountedFrom(entry) ==
  IF now - entry.start >= RATE_WINDOW_MS
  THEN [count |-> 1, start |-> now]
  ELSE [count |-> entry.count + 1, start |-> entry.start]

\* The window test and the count.
Counted(entry) ==
  IF now - entry.start > RATE_WINDOW_MS
  THEN [count |-> 1, start |-> now]
  ELSE [count |-> entry.count + 1, start |-> entry.start]

\* rateMap.set(ip, entry)
SetEntry(ip, entry) ==
  [k \in DOMAIN rateMap \cup {ip} |-> IF k = ip THEN entry ELSE rateMap[k]]

\* The limit test with >= in place of >.
ExceedsFrom(entry) == entry.count >= RATE_LIMIT

Exceeds(entry) == entry.count > RATE_LIMIT

\* The rate limiter: the map it leaves and, when it rejects, its response.
RateLimiter(req) ==
  LET ip    == ClientKey(req)
      entry == Counted(Entry(ip))
  IN  IF Exceeds(entry)
      THEN [next |-> FALSE, map |-> SetEntry(ip, entry),
            sends |-> <<sendError(429, "Too many requests")>>]
      ELSE [next |-> TRUE, map |-> SetEntry(ip, entry), sends |-> <<>>]

\* One request through the chain, up to its response or its await.
Handle(req) ==
  LET c == Cors(req)
      j == JsonParser(req)
      l == RateLimiter(req)
      r == Router(req)
      stopped(sends, reached, map) ==
        [sends |-> sends, called |-> "none", suspend |-> FALSE,
         prompt |-> <<>>, reached |-> reached, map |-> map]
  IN  IF ~c.next THEN stopped(c.sends, FALSE, rateMap)
      ELSE IF ~j.next THEN stopped(c.sends \o j.sends, FALSE, rateMap)
      ELSE IF ~l.next
      THEN stopped(c.sends \o j.sends \o l.sends, TRUE, l.map)
      ELSE [sends |-> c.sends \o j.sends \o l.sends \o r.sends,
            called |-> r.called, suspend |-> r.suspend, prompt |-> r.prompt,
            reached |-> TRUE, map |-> l.map]

-----------------------------------------------------------------------------
(* State and actions.                                                        *)

NoRequest ==
  [ip |-> "", remoteAddress |-> "", method |-> "", path |-> "",
   payload |-> "", body |-> Undefined]

NoEntry == [count |-> 0, start |-> 0]

\* The latest handler turn: its request, whether the request reached the
\* rate limiter and the entry the limiter read for it, the responses written,
\* the kernel or external call made, and for a settled AI call its outcome.
NoLast ==
  [kind |-> "none", req |-> NoRequest, reached |-> FALSE,
   entry |-> NoEntry, sends |-> <<>>, called |-> "none",
   suspended |-> FALSE, threw |-> FALSE, content |-> <<>>]

\* No run of requests is being followed.
NoBurst ==
  [on |-> FALSE, start |-> 0, n |-> 0, counted |-> 0, opened |-> FALSE]

Init ==
  /\ OFFICIAL_EMAIL \in {"", "dev@example.com"}
  /\ genAI \in BOOLEAN
  /\ rateMap = <<>>
  /\ now = 0
  /\ pending = <<>>
  /\ last = NoLast
  /\ burst = NoBurst

\* The smallest id no suspended handler holds.
FreeId == CHOOSE i \in 1..(Cardinality(DOMAIN pending) + 1) :
            i \notin DOMAIN pending

\* A request arrives and runs through the chain in one turn.
Request(req) ==
  LET h == Handle(req)
  IN  /\ rateMap' = h.map
      /\ pending' =
           IF h.suspend
           THEN [i \in DOMAIN pending \cup {FreeId} |->
                   IF i = FreeId THEN [req |-> req, prompt |-> h.prompt]
                   ELSE pending[i]]
           ELSE pending
      /\ last' = [kind |-> "request", req |-> req,
                  reached |-> h.reached,
                  entry |-> IF h.reached THEN Entry(ClientKey(req))
                            ELSE NoEntry,
                  sends |-> h.sends,
                  called |-> h.called, suspended |-> h.suspend,
                  threw |-> FALSE, content |-> <<>>]
      /\ UNCHANGED <<OFFICIAL_EMAIL, genAI, now>>

Remaining(id) == [i \in DOMAIN pending \ {id} |-> pending[i]]

\* The external call of a suspended handler returns the text content.
AIResolve(id, content) ==
  /\ id \in DOMAIN pending
  /\ pending' = Remaining(id)
  /\ last' = [kind |-> "settled", req |-> pending[id].req,
              reached |-> TRUE, entry |-> NoEntry,
              sends |-> IF content = <<>>
                        THEN <<sendError(502, "AI service returned no answer")>>
                        ELSE <<sendData(TextData(cleanAIContent(trim(content))))>>,
              called |-> "none", suspended |-> FALSE,
              threw |-> FALSE, content |-> content]
  /\ UNCHANGED <<OFFICIAL_EMAIL, genAI, rateMap, now, burst>>

\* The external call of a suspended handler throws.
AIReject(id) ==
  /\ id \in DOMAIN pending
  /\ pending' = Remaining(id)
  /\ last' = [kind |-> "settled", req |-> pending[id].req,
              reached |-> TRUE, entry |-> NoEntry,
              sends |-> <<sendError(502, "AI service error")>>,
              called |-> "none", suspended |-> FALSE,
              threw |-> TRUE, content |-> <<>>]
  /\ UNCHANGED <<OFFICIAL_EMAIL, genAI, rateMap, now, burst>>

-----------------------------------------------------------------------------
(* Bounds and the inputs drawn from them.                                    *)

MaxWindows == 1   \* the clock runs over this many windows past the first
MaxOver    == 2   \* a client is followed this far past RATE_LIMIT
MaxCount   == 2   \* requests per window of a client that stays in its limit
MaxOther   == 1   \* requests per window of the client beside the followed one
MaxPending == 1   \* handlers suspended on the AI call at a time
MaxBypass  == 1   \* requests per burst that a middleware answers by itself
MaxLen     == 3   \* array length of the kernel inputs
MaxFib     == 81  \* largest fibonacci argument of the kernel inputs

\* The clock values: the start, the millisecond after it, and the instants
\* one window and a millisecond later, so that both a difference of exactly
\* RATE_WINDOW_MS and one above it occur.
Times == {0, 1} \cup {k * RATE_WINDOW_MS + 1 : k \in 1..MaxWindows}

\* Date.now() moves on.
Tick == \E t \in Times : t > now /\ now' = t
          /\ UNCHANGED <<OFFICIAL_EMAIL, genAI, rateMap, pending, last, burst>>

Req(ip, method, path, payload, body) ==
  [ip |-> ip, remoteAddress |-> ip, method |-> method, path |-> path,
   payload |-> payload, body |-> body]

Q == <<"q">>

\* The texts the external model may return.
AITexts ==
  { <<>>, <<" ">>, <<"a">>,
    <<"*", "*", "a", "*", "*", " ", "b">>,
    <<BT, "a", BT, BS, "n", "b">>,
    <<BT, BT, BT, "a", BT, BT, BT, "b", LF, LF, LF, LF, "c", " ">>,
    <<"a", "{", " ", "}", "b">>,
    <<"{", "a", "}", "_", "_", "b", "_", "_">>,
    <<"a", " ", "b", "@", "c", ".", "d", "e">> }

Ints(seq) == [i \in 1..Len(seq) |-> JNum(seq[i])]

\* Bodies of POST /bfhl that take every branch of the validation.
Bodies ==
  { Undefined, Obj(<<>>, <<>>), TopArray1(JNum(1)),
    Obj(<<"prime", "hcf">>, <<JArr(Ints(<<2>>)), JArr(Ints(<<4>>))>>),
    Obj(<<"AI", "fibonacci", "lcm">>, <<JStr(Q), JNum(3), JArr(Ints(<<4>>))>>),
    Obj1("foo", JNum(1)), Obj1("Fibonacci", JNum(3)) }
  \cup { Obj1("fibonacci", v) :
           v \in { JNum(0), JNum(1), JNum(2), JNum(7), JNum(1001), JNum(-1),
                   JFrac, JStr(<<"5">>), JNull, JArr(Ints(<<3>>)) } }
  \cup { Obj1(k, v) :
           k \in {"prime", "hcf", "lcm"},
           v \in { JArr(<<>>), JArr(Ints(<<2, 3, 4, 5, 1>>)),
                   JArr(Ints(<<12, 18>>)), JArr(Ints(<<-4>>)),
                   JArr(<<JNum(2), JStr(<<"x">>)>>), JArr(<<JFrac>>),
                   JArr(<<JNum(4), JNull>>), JStr(<<"x">>), JNum(7), JNull } }
  \cup { Obj1("AI", v) :
           v \in { JStr(<<>>), JStr(<<" ">>), JStr(Q), JStr(<<" ", "q", LF>>),
                   JNum(5), JNull, JArr(<<JStr(Q)>>) } }

Requests ==
  { Req("a", "POST", "/bfhl", "parsed", b) : b \in Bodies }
  \cup { Req("a", "GET", "/health", "parsed", Obj(<<>>, <<>>)),
         Req("a", "POST", "/health", "parsed", Obj(<<>>, <<>>)),
         Req("a", "GET", "/bfhl", "parsed", Obj(<<>>, <<>>)),
         Req("a", "GET", "/", "parsed", Undefined),
         Req("a", "OPTIONS", "/bfhl", "parsed", Undefined),
         Req("a", "POST", "/bfhl", "malformed", Undefined),
         Req("a", "POST", "/bfhl", "toolarge", Undefined) }

\* The request keeps its client within cap requests a window, and finds a
\* free slot if its handler suspends.
Within(req, cap) ==
  /\ Counted(Entry(ClientKey(req))).count <= cap
  /\ Handle(req).suspend => Cardinality(DOMAIN pending) < MaxPending

Next ==
  \/ \E req \in Requests :
       Within(req, MaxCount) /\ Request(req) /\ UNCHANGED burst
  \/ \E id \in DOMAIN pending, content \in AITexts : AIResolve(id, content)
  \/ \E id \in DOMAIN pending : AIReject(id)

Spec == Init /\ [][Next]_vars

-----------------------------------------------------------------------------
(* The rate limiter over full windows: one client, its requests that reach   *)
(* the limiter and those answered before it, and the clock.                  *)

\* The client whose requests are followed.
Watched == "a"

\* A run of requests of the watched client that lie within RATE_WINDOW_MS of
\* the first of them: how many were sent (n), how many of them reached the
\* limiter (counted), and whether the first of them did, opening a window.
\* The runs followed are those that begin while the client has no running
\* window; a request later than RATE_WINDOW_MS after the first one ends the
\* run, and starts the next one if it finds no running window.
BurstStep(req) ==
  LET h       == Handle(req)
      fresh   == ~burst.on \/ now - burst.start > RATE_WINDOW_MS
      running == /\ Watched \in DOMAIN rateMap
                 /\ now - rateMap[Watched].start <= RATE_WINDOW_MS
      hit     == IF h.reached THEN 1 ELSE 0
  IN  IF ClientKey(req) # Watched THEN burst
      ELSE IF fresh /\ running THEN NoBurst
      ELSE IF fresh
      THEN [on |-> TRUE, start |-> now, n |-> 1, counted |-> hit,
            opened |-> h.reached]
      ELSE [burst EXCEPT !.n = @ + 1, !.counted = @ + hit]

BurstRequests ==
  { Req(Watched, "GET", "/health", "parsed", Obj(<<>>, <<>>)),
    Req(Watched, "OPTIONS", "/bfhl", "parsed", Undefined),
    Req(Watched, "POST", "/bfhl", "malformed", Undefined) }

\* The client is followed MaxOver requests past the limit, and at most
\* MaxBypass requests of a run are answered before the limiter.
WithinBurst(req) ==
  IF Handle(req).reached
  THEN Counted(Entry(ClientKey(req))).count <= RATE_LIMIT + MaxOver
  ELSE \/ ~burst.on
       \/ now - burst.start > RATE_WINDOW_MS
       \/ burst.n - burst.counted < MaxBypass

\* A process with its identity and the AI credential configured.
InitConfigured == Init /\ OFFICIAL_EMAIL # "" /\ genAI

NextBurst ==
  \/ \E req \in BurstRequests :
       WithinBurst(req) /\ Request(req) /\ burst' = BurstStep(req)
  \/ Tick

SpecBurst == InitConfigured /\ [][NextBurst]_vars

-----------------------------------------------------------------------------
(* The rate limiter between clients: one client going past the limit while   *)
(* another one's handlers are suspended on the AI call, and the clock.       *)

LimiterRequests ==
  { Req("a", "GET", "/health", "parsed", Obj(<<>>, <<>>)),
    Req("a", "OPTIONS", "/bfhl", "parsed", Undefined),
    Req("b", "POST", "/bfhl", "parsed", Obj1("AI", JStr(Q))) }

\* Client a is followed MaxOver requests past the limit and client b stays
\* within MaxOther requests a window.
WithinLimiter(req) ==
  LET h  == Handle(req)
      ip == ClientKey(req)
  IN  /\ h.reached =>
           Counted(Entry(ip)).count
             <= (IF ip = "a" THEN RATE_LIMIT + MaxOver ELSE MaxOther)
      /\ h.suspend => Cardinality(DOMAIN pending) < MaxPending

LimiterTexts == { <<"a">> }

NextLimiter ==
  \/ \E req \in LimiterRequests :
       WithinLimiter(req) /\ Request(req) /\ UNCHANGED burst
  \/ \E id \in DOMAIN pending, content \in LimiterTexts : AIResolve(id, content)
  \/ \E id \in DOMAIN pending : AIReject(id)
  \/ Tick

SpecLimiter == InitConfigured /\ [][NextLimiter]_vars

-----------------------------------------------------------------------------
(* The kernels on many inputs: the first request of a fresh process.         *)

\* Sequences over S of length 1..n.
RECURSIVE SeqsUpTo(_, _)
SeqsUpTo(S, n) ==
  IF n = 0 THEN {}
  ELSE LET shorter == SeqsUpTo(S, n - 1)
       IN  {<<x>> : x \in S} \cup shorter
             \cup {Append(q, x) : q \in {r \in shorter : Len(r) = n - 1}, x \in S}

PrimeVals == {-7, 0, 1, 2, 9, 29}
HcfVals   == {-6, -4, 0, 9, 12, 18}
LcmVals   == {-6, 0, 4, 10, 134217727, 134217729}

KernelBodies ==
  { Obj1("fibonacci", JNum(n)) : n \in 0..MaxFib }
  \cup { Obj1("fibonacci", JNum(1001)),
         Obj1("prime", JArr(Ints(<<2, 3, 4, 5, 1>>))) }
  \cup { Obj1("prime", JArr(Ints(q))) : q \in SeqsUpTo(PrimeVals, MaxLen) }
  \cup { Obj1("hcf", JArr(Ints(q))) : q \in SeqsUpTo(HcfVals, MaxLen) }
  \cup { Obj1("lcm", JArr(Ints(q))) : q \in SeqsUpTo(LcmVals, MaxLen) }

KernelRequest ==
  /\ last.kind = "none"
  /\ \E b \in KernelBodies :
       Request(Req("a", "POST", "/bfhl", "parsed", b)) /\ UNCHANGED burst

SpecKernel == InitConfigured /\ [][KernelRequest]_vars

-----------------------------------------------------------------------------
(* Properties.                                                               *)

Max(S) == CHOOSE m \in S : \A k \in S : k <= m

\* The value of a number that fits TLC's integers.
IntOf(x) == (IF x.neg THEN -1 ELSE 1) * ToNat(x.mag)

\* The latest turn is that of an arriving request.
RequestTurn == last.kind = "request"

\* The latest turn answered with exactly one response.
OneResponse == Len(last.sends) = 1

\* The envelope of an error with the given status.
ErrorEnvelope(r, status) ==
  /\ r.body = "json" /\ r.status = status
  /\ ~r.is_success /\ r.hasError /\ ~r.hasData

\* The envelope of a success.
SuccessEnvelope(r) ==
  /\ r.body = "json" /\ r.status = 200
  /\ r.is_success /\ ~r.hasError

Succeeded == OneResponse /\ SuccessEnvelope(last.sends[1])

Answered(status) == OneResponse /\ ErrorEnvelope(last.sends[1], status)

AnsweredWith(status, message) ==
  Answered(status) /\ last.sends[1].error = message

Any429 == \E i \in 1..Len(last.sends) : last.sends[i].status = 429

\* The request of the latest turn is a POST /bfhl whose body parsed.
BfhlRequest ==
  /\ last.req.method = "POST" /\ last.req.path = "/bfhl"
  /\ last.req.payload = "parsed"

\* The service identity is configured and the request of the latest turn
\* went through the rate limiter to the route handlers.
Dispatched ==
  /\ OFFICIAL_EMAIL # ""
  /\ last.reached
  /\ rateMap[ClientKey(last.req)].count <= RATE_LIMIT

\* The body is a JSON object with the one key given.
HasOnlyKey(body, key) == body.kind = "object" /\ body.keys = <<key>>

IntegerValue(v) == v.t = "num" /\ v.int

IntegerArray(v) ==
  /\ v.t = "arr" /\ Len(v.a) > 0
  /\ \A i \in 1..Len(v.a) : IntegerValue(v.a[i])

\* The request of the latest turn sends a non-empty array of integers under
\* the key.
ArrayRequest(key) ==
  /\ BfhlRequest /\ HasOnlyKey(last.req.body, key)
  /\ IntegerArray(last.req.body.vals[1])

Input == Numbers(last.req.body.vals[1].a)

BadShape(body) ==
  \/ body.kind # "object"
  \/ Len(body.keys) # 1
  \/ body.keys[1] \notin {"fibonacci", "prime", "lcm", "hcf", "AI"}

(* C2: a POST /bfhl that reaches the dispatcher with the identity           *)
(* configured and whose body is not an object with exactly one key of       *)
(* fibonacci, prime, lcm, hcf, AI is answered 400 with is_success false,    *)
(* no kernel and no AI call is made, and with two or more keys the message  *)
(* is "Request must contain exactly one top-level key".                     *)
C2_BodyShape ==
  (RequestTurn /\ BfhlRequest /\ Dispatched /\ BadShape(last.req.body)) =>
    /\ Answered(400)
    /\ last.called = "none" /\ ~last.suspended
    /\ Len(last.req.body.keys) >= 2 =>
         last.sends[1].error = "Request must contain exactly one top-level key"

C2_Witness ==
  /\ RequestTurn /\ BfhlRequest /\ Dispatched
  /\ last.req.body.kind = "object" /\ last.req.body.keys = <<"prime", "hcf">>
  /\ AnsweredWith(400, "Request must contain exactly one top-level key")
  /\ last.called = "none"

\* The value under an allowed key fails the check of that key.
BadInput(key, v) ==
  IF key = "fibonacci"
  THEN ~(IntegerValue(v) /\ ~v.n.neg /\ ~IsZero(v.n) /\ NumLeq(v.n, Num(1000)))
  ELSE IF key = "AI"
  THEN v.t # "str" \/ \A i \in 1..Len(v.s) : IsSpace(v.s[i])
  ELSE ~IntegerArray(v)

\* The request of the latest turn is a POST /bfhl with one allowed key whose
\* value fails the key's check.
BadInputRequest ==
  /\ RequestTurn /\ BfhlRequest
  /\ ~BadShape(last.req.body)
  /\ BadInput(last.req.body.keys[1], last.req.body.vals[1])

(* C3, as the specification states it: every POST /bfhl with exactly one    *)
(* allowed key whose value fails the key's check (fibonacci not an integer  *)
(* in 1..1000; prime, hcf or lcm not a non-empty array of integers; AI not  *)
(* a string that is non-empty after trimming) is answered 400 with          *)
(* is_success false, and an empty hcf array with "hcf must be a non-empty   *)
(* array".                                                                  *)
C3_Original ==
  BadInputRequest =>
    /\ Answered(400)
    /\ (last.req.body.keys[1] = "hcf" /\ last.req.body.vals[1] = JArr(<<>>)) =>
         last.sends[1].error = "hcf must be a non-empty array"

(* C3, amended: the same of every such request that reaches the dispatcher  *)
(* with the service identity configured; no kernel and no AI call is made.  *)
C3_InputCheck ==
  (BadInputRequest /\ Dispatched) =>
    /\ Answered(400)
    /\ last.called = "none" /\ ~last.suspended
    /\ (last.req.body.keys[1] = "hcf" /\ last.req.body.vals[1] = JArr(<<>>)) =>
         last.sends[1].error = "hcf must be a non-empty array"

C3_Witness ==
  /\ BadInputRequest /\ Dispatched
  /\ last.req.body = Obj1("hcf", JArr(<<>>))
  /\ AnsweredWith(400, "hcf must be a non-empty array")

\* x is a prime by definition: above 1 and with no divisor strictly between
\* 1 and x.
IsPrimeByDefinition(x) ==
  LET v == IntOf(x)
  IN  v > 1 /\ \A d \in 2..(v - 1) : v % d # 0

(* C4: for a non-empty array of integers sent as prime, the data of the     *)
(* success response is the subsequence of the input made of its primes by   *)
(* definition, in input order and with duplicates kept.                     *)
C4_PrimeData ==
  (RequestTurn /\ ArrayRequest("prime") /\ Succeeded) =>
    /\ last.sends[1].hasData
    /\ last.sends[1].data = ListData(SelectSeq(Input, IsPrimeByDefinition))

C4_Witness ==
  /\ RequestTurn /\ ArrayRequest("prime") /\ Succeeded
  /\ Input = <<Num(2), Num(3), Num(4), Num(5), Num(1)>>
  /\ last.sends[1].data = ListData(<<Num(2), Num(3), Num(5)>>)

(* C5: for n in 1..1000 the fibonacci data has exactly n terms, the first   *)
(* is 0, the second (for n >= 2) is 1, and every later term is the sum of   *)
(* the two terms before it.                                                 *)
C5_Fibonacci ==
  (/\ RequestTurn /\ BfhlRequest /\ HasOnlyKey(last.req.body, "fibonacci")
   /\ ~BadInput("fibonacci", last.req.body.vals[1])
   /\ Succeeded) =>
    LET n == IntOf(last.req.body.vals[1].n)
        d == last.sends[1].data.list
    IN  /\ Len(d) = n
        /\ d[1] = Zero
        /\ n >= 2 => d[2] = Num(1)
        /\ \A i \in 3..n :
             d[i] = [neg |-> FALSE, mag |-> BAdd(d[i - 1].mag, d[i - 2].mag)]

\* d divides x: x is a whole multiple of d.
Divides(d, x) ==
  IF IsZero(d) THEN IsZero(x) ELSE BDivMod(x.mag, d.mag).r = <<>>

\* arr in the order perm.
Permuted(arr, perm) == [i \in 1..Len(arr) |-> arr[perm[i]]]

(* C6: for a non-empty array of integers gcdArray gives the same value for  *)
(* every permutation of the array, a value that divides every element, and  *)
(* lcmArray gives a multiple of every element.                              *)
C6_GcdLcm ==
  /\ (RequestTurn /\ ArrayRequest("hcf") /\ Succeeded) =>
       LET g == last.sends[1].data.num
       IN  /\ g = gcdArray(Input)
           /\ \A perm \in Permutations(1..Len(Input)) :
                gcdArray(Permuted(Input, perm)) = g
           /\ \A i \in 1..Len(Input) : Divides(g, Input[i])
  /\ (RequestTurn /\ ArrayRequest("lcm") /\ Succeeded) =>
       LET m == last.sends[1].data.num
       IN  /\ m = lcmArray(Input)
           /\ \A i \in 1..Len(Input) : Divides(Input[i], m)

\* The AI request of the latest turn carries a string that is not empty
\* after trimming.
AIRequest ==
  /\ BfhlRequest /\ HasOnlyKey(last.req.body, "AI")
  /\ ~BadInput("AI", last.req.body.vals[1])

\* What happens once the external call was made: a throw or an empty text is
\* answered 502, and a success carries the sanitized text of a non-empty
\* text that was returned.
AISettled ==
  /\ (last.kind = "settled" /\ (last.threw \/ last.content = <<>>)) =>
       Answered(502)
  /\ (AIRequest /\ Succeeded) =>
       /\ last.kind = "settled" /\ ~last.threw /\ last.content # <<>>
       /\ last.sends[1].hasData
       /\ last.sends[1].data = TextData(cleanAIContent(trim(last.content)))

(* C7, as the specification states it: for every POST /bfhl whose one key   *)
(* is AI with a string non-empty after trimming, without the credential the *)
(* answer is 503 "AI service not configured" and no external call is made;  *)
(* a throw or an empty text of the external call is answered 502; a success *)
(* with the sanitized text is sent only when the call returned a non-empty  *)
(* text.                                                                    *)
C7_Original ==
  /\ (RequestTurn /\ AIRequest /\ ~genAI) =>
       /\ AnsweredWith(503, "AI service not configured")
       /\ last.called = "none" /\ ~last.suspended
  /\ AISettled

(* C7, amended: the 503 answer is that of a request which reaches the       *)
(* dispatcher with the service identity configured; with the credential     *)
(* such a request is answered only once the external call has settled.      *)
C7_AIBranch ==
  /\ (RequestTurn /\ AIRequest /\ Dispatched /\ ~genAI) =>
       /\ AnsweredWith(503, "AI service not configured")
       /\ last.called = "none" /\ ~last.suspended
  /\ (RequestTurn /\ AIRequest /\ Dispatched /\ genAI) =>
       /\ last.sends = <<>>
       /\ last.called = "generateContent" /\ last.suspended
  /\ AISettled

\* The external call returned a text that the sanitizer changed.
C7_Witness ==
  /\ last.kind = "settled" /\ AIRequest /\ Succeeded
  /\ last.content # <<>>
  /\ last.sends[1].data.text # last.content
  /\ last.sends[1].data.text = <<"a", " ", "b">>

(* C8: every response is an envelope that is a success (status 200,         *)
(* is_success true, no error field) or an error (is_success false, an error *)
(* message, no data field, status one of 400, 404, 429, 500, 502, 503), and *)
(* every request gets exactly one response.                                 *)
C8_Envelope ==
  /\ \A i \in 1..Len(last.sends) :
       \/ SuccessEnvelope(last.sends[i])
       \/ \E status \in {400, 404, 429, 500, 502, 503} :
            ErrorEnvelope(last.sends[i], status)
  /\ (RequestTurn /\ ~last.suspended) => OneResponse
  /\ (RequestTurn /\ last.suspended) => last.sends = <<>>
  /\ last.kind = "settled" => OneResponse

\* The step is the limiter counting a request.
LimiterStep == last'.kind = "request" /\ last'.reached /\ last' # last

GcdByDefinition(S) ==
  IF S = {0} THEN 0
  ELSE LET common == {d \in 1..Max(S) : \A x \in S : x % d = 0}
       IN  Max(common)

(* C10: for a non-empty array of integers sent as hcf, one element and      *)
(* negative elements included, the data is the non-negative greatest common *)
(* divisor of the absolute values of the elements.                          *)
C10_Hcf ==
  (RequestTurn /\ ArrayRequest("hcf") /\ Succeeded) =>
    last.sends[1].data =
      NumData(Num(GcdByDefinition({Abs(IntOf(Input[i])) : i \in 1..Len(Input)})))

=============================================================================
